---- MODULE Spec2Model ----
(***************************************************************************)
(* pv-news (index.js): the polling-and-deduplication pipeline.             *)
(*                                                                         *)
(* State: the posts table, the session set, the poll cycles in flight      *)
(* (one pollReddit task and one pollX task each, suspended at an await),   *)
(* and what the latest poll step did: its console lines, the rows the      *)
(* store ignored, the children it passed over, the /api response sent.     *)
(* JavaScript runs one handler at a time: a step of the model is the code  *)
(* between two awaits, and cycles interleave only at awaits. The step      *)
(* that settles the second task of a cycle also runs what awaits the       *)
(* cycle, since promise continuations run before the next I/O event.       *)
(*                                                                         *)
(* Spec         the server polling, one cycle at a time, every response    *)
(* SpecOverlap  up to MaxCycles cycles in flight, well-formed responses    *)
(* SpecServer   the server from process start, with sessions               *)
(* SpecHang     one cycle at a time, with endpoints that never answer      *)
(* SpecQuery    the read routes over tables around the query limits        *)
(* SpecTweets   the microblog task and GET /api/x, tweets without metrics  *)
(* SpecIds      the forum task with native ids that start like a prefix    *)
(* SpecPartial  responses with an item that makes the loop throw           *)
(* SpecAccess   sessions and every path behind requireAuth                 *)
(***************************************************************************)
EXTENDS Integers, Sequences, FiniteSets, Bags, TLC

\* ------------------------------------------------------------------ bounds
MaxCycles == 2      \* poll cycles in flight at once
MaxItems == 2       \* children in one endpoint response

\* --------------------------------------------------------- configuration
REDDIT_SUBREDDITS == <<"puertovallarta", "mexico", "travel">>
REDDIT_PRIMARY_SUB == "puertovallarta"
AUTH_PASSWORD == "pvnews"

\* JavaScript objects are records; a property the object does not have
\* reads as undefined
Has(obj, key) == key \in DOMAIN obj

\* SQL NULL in a text column
Null == "<null>"

\* s || null, for a string s
OrNull(s) == IF s = "" THEN Null ELSE s

\* ------------------------------------------------------------ conversions
\* new Date(ms).toISOString(), for the instants the payloads below carry
ToISOString(ms) ==
    CASE ms = 1000 -> "1970-01-01T00:00:01.000Z"
      [] ms = 2000 -> "1970-01-01T00:00:02.000Z"
      [] ms = 3000 -> "1970-01-01T00:00:03.000Z"

\* Date.parse of the ISO-8601 strings the payloads below carry
DateParse(s) ==
    CASE s = "1970-01-01T00:00:03Z" -> 3000

\* String(n), for a natural number n
Digits == <<"0", "1", "2", "3", "4", "5", "6", "7", "8", "9">>

RECURSIVE NumStr(_)
NumStr(n) == IF n < 10 THEN Digits[n + 1] ELSE NumStr(n \div 10) \o Digits[(n % 10) + 1]

\* JSON.stringify of an object of the shapes the adapters build
Stringify(obj) ==
    CASE DOMAIN obj = {} -> "{}"
      [] DOMAIN obj = {"like_count"} -> "{\"like_count\":" \o NumStr(obj.like_count) \o "}"
      [] DOMAIN obj = {"link_id", "link_title"} ->
            "{\"link_id\":\"" \o obj.link_id \o "\",\"link_title\":\"" \o obj.link_title \o "\"}"

\* the JavaScript value null where objects stand
JsNull == [null |-> TRUE]

\* JSON.parse of the texts the metrics column holds
JsonParse(text) ==
    CASE text = "{}" -> <<>>
      [] text = "{\"like_count\":3}" -> [like_count |-> 3]
      [] text = "{\"link_id\":\"t3_1\",\"link_title\":\"a\"}" -> [link_id |-> "t3_1", link_title |-> "a"]

\* ------------------------------------------------------- external payloads
\* children of a listing or search response of the forum API: the same post
\* seen twice with different scores and texts, a child without data
RedditChildren ==
    { [kind |-> "t3", data |-> [id |-> "1", title |-> "a", selftext |-> "", score |-> 1, created_utc |-> 1]],
      [kind |-> "t3", data |-> [id |-> "1", title |-> "a", selftext |-> "txt", score |-> 2, created_utc |-> 1]],
      [kind |-> "t3"] }

\* children of the comments listing
CommentChildren ==
    { [kind |-> "t1", data |-> [id |-> "1", body |-> "hi", score |-> 1, link_id |-> "t3_1", link_title |-> "a", created_utc |-> 2]],
      [kind |-> "t1", data |-> [id |-> "2", body |-> "[deleted]", score |-> 1, link_id |-> "t3_1", link_title |-> "a", created_utc |-> 2]],
      [kind |-> "t1", data |-> [id |-> "2", body |-> "[removed]", score |-> 1, link_id |-> "t3_1", link_title |-> "a", created_utc |-> 2]],
      [kind |-> "t1", data |-> [id |-> "2", body |-> "", score |-> 1, link_id |-> "t3_1", link_title |-> "a", created_utc |-> 2]] }

\* elements of data of the microblog search response
Tweets ==
    { [id |-> "1", text |-> "pv", public_metrics |-> [like_count |-> 3], created_at |-> "1970-01-01T00:00:03Z"],
      [id |-> "1", text |-> "pv", created_at |-> "1970-01-01T00:00:03Z"],
      [id |-> "1", text |-> "pv"] }

SeqsUpTo(S, n) == UNION { [1..k -> S] : k \in 0..n }

\* what one fetch can come to: the request fails, the status is not 2xx,
\* the body is not JSON, or a list of at most n children
Responses(S, n) ==
    { [kind |-> k, children |-> <<>>] : k \in {"neterr", "non2xx", "badjson"} }
      \cup { [kind |-> "ok", children |-> cs] : cs \in SeqsUpTo(S, n) }

\* ------------------------------------------------------------------ state
VARIABLES
    posts,            \* the posts table: a bag of rows
    dbAvailable,      \* FALSE once the store is unavailable (disk full, corruption)
    sessions,         \* the session set
    X_BEARER_TOKEN,   \* the microblog credential, "" when not configured
    listening,        \* the app.listen callback has run (the cron job is scheduled)
    cycle,            \* the pollAll calls in flight: a bag of cycles
    console,          \* the lines the latest step of a cycle wrote to the console
    ignored,          \* the rows that step passed to insertPost.run and that changed nothing
    skipped,          \* the children that step passed over (continue)
    response          \* the /api response sent since that step

vars == <<posts, dbAvailable, sessions, X_BEARER_TOKEN, listening, cycle, console, ignored, skipped, response>>

Tokens == {"t1"}

\* ------------------------------------------------------------- the store
\* rows of the posts table (title stands for the columns copied verbatim:
\* url, author, subreddit, permalink; fetched_at is not modelled)
RowIds(db) == { r.id : r \in BagToSet(db) }

\* INSERT into a table whose id is not a key: the row is always added
insertPostNoKey(db, row) ==
    [db |-> db (+) SetToBag({row}), changes |-> 1]

\* INSERT OR REPLACE: the row takes the place of the row with its id
insertPostReplace(db, row) ==
    [db |-> [ r \in { q \in BagToSet(db) : q.id # row.id } |-> db[r] ] (+) SetToBag({row}),
     changes |-> 1]

\* INSERT OR IGNORE INTO posts ...: id is the primary key, a row whose id is
\* already there is ignored; an unavailable store makes run() throw
insertPost(db, row) ==
    IF row.id \in RowIds(db)
    THEN [db |-> db, changes |-> 0]
    ELSE [db |-> db (+) SetToBag({row}), changes |-> 1]

\* SELECT source, COUNT(*) FROM posts GROUP BY source
countBySource(db) ==
    [ s \in { r.source : r \in BagToSet(db) } |->
        BagCardinality([ r \in { q \in BagToSet(db) : q.source = s } |-> db[r] ]) ]

\* ----------------------------------------------------- item normalisation
PostId(native) == "reddit_" \o native

\* comments under the prefix of posts
CommentIdPostPrefix(native) == "reddit_" \o native

CommentId(native) == "reddit_comment_" \o native

TweetId(native) == "x_" \o native

\* the body of the for loop of pollReddit, up to the call of insertPost.run:
\* child.data undefined makes d.id throw TypeError, a missing created_utc
\* makes toISOString throw RangeError
PostAttempt(child) ==
    IF ~Has(child, "data") THEN [act |-> "throw", err |-> "TypeError"]
    ELSE LET d == child.data IN
         IF ~Has(d, "created_utc") THEN [act |-> "throw", err |-> "RangeError"]
         ELSE [act |-> "insert",
               row |-> [id |-> PostId(d.id), source |-> "reddit", title |-> d.title,
                        body |-> OrNull(d.selftext), score |-> d.score, metrics |-> Null,
                        created_at |-> ToISOString(d.created_utc * 1000)]]

\* a filter that lets removed comments through
SkipBodyDeletedOnly(body) == body = "" \/ body = "[deleted]"

\* the comment filter on the body: empty, deleted and removed bodies
SkipBody(body) == body = "" \/ body = "[deleted]" \/ body = "[removed]"

\* the body of the for loop of pollSubredditComments
CommentAttempt(child) ==
    IF child.kind # "t1" THEN [act |-> "skip", child |-> child]
    ELSE IF ~Has(child, "data") THEN [act |-> "throw", err |-> "TypeError"]
    ELSE LET c == child.data IN
         IF SkipBody(c.body) THEN [act |-> "skip", child |-> child]
         ELSE [act |-> "insert",
               row |-> [id |-> CommentId(c.id), source |-> "reddit_comment", title |-> Null,
                        body |-> c.body, score |-> c.score,
                        metrics |-> Stringify([link_id |-> c.link_id, link_title |-> c.link_title]),
                        created_at |-> ToISOString(c.created_utc * 1000)]]

\* a loop body that reads the counters of tweet.public_metrics: without
\* public_metrics that throws TypeError
TweetAttemptNoDefault(tweet) ==
    IF ~Has(tweet, "public_metrics") THEN [act |-> "throw", err |-> "TypeError"]
    ELSE IF ~Has(tweet, "created_at") THEN [act |-> "throw", err |-> "RangeError"]
    ELSE [act |-> "insert",
          row |-> [id |-> TweetId(tweet.id), source |-> "x", title |-> Null,
                   body |-> tweet.text, score |-> 0,
                   metrics |-> Stringify(tweet.public_metrics),
                   created_at |-> ToISOString(DateParse(tweet.created_at))]]

\* the body of the for loop of pollX
TweetAttempt(tweet) ==
    IF ~Has(tweet, "created_at") THEN [act |-> "throw", err |-> "RangeError"]
    ELSE [act |-> "insert",
          row |-> [id |-> TweetId(tweet.id), source |-> "x", title |-> Null,
                   body |-> tweet.text, score |-> 0,
                   metrics |-> Stringify(IF Has(tweet, "public_metrics")
                                         THEN tweet.public_metrics ELSE <<>>),
                   created_at |-> ToISOString(DateParse(tweet.created_at))]]

\* a counter that counts every call of insertPost.run
CountedEveryRun(changes) == 1

\* if (result.changes > 0) inserted++
Counted(changes) == IF changes > 0 THEN 1 ELSE 0

\* a for loop over the attempts: it stops at the first throw, and what was
\* inserted before stays
RECURSIVE InsertLoop(_, _, _)
InsertLoop(acc, attempts, avail) ==
    IF attempts = <<>> THEN acc
    ELSE LET a == Head(attempts) IN
         CASE a.act = "skip" ->
                InsertLoop([acc EXCEPT !.skipped = @ \cup {a.child}], Tail(attempts), avail)
           [] a.act = "throw" -> [acc EXCEPT !.err = a.err]
           [] a.act = "insert" ->
                IF ~avail THEN [acc EXCEPT !.err = "SqliteError"]
                ELSE LET r == insertPost(acc.db, a.row) IN
                     InsertLoop([db |-> r.db,
                                 inserted |-> acc.inserted + Counted(r.changes),
                                 err |-> "none",
                                 ignored |-> IF r.changes > 0 THEN acc.ignored
                                             ELSE acc.ignored \cup {a.row},
                                 skipped |-> acc.skipped],
                                Tail(attempts), avail)

\* the loops of the three adapters over the children of a response
PostAttempts(children) == [ i \in DOMAIN children |-> PostAttempt(children[i]) ]

CommentAttempts(children) == [ i \in DOMAIN children |-> CommentAttempt(children[i]) ]

TweetAttempts(children) == [ i \in DOMAIN children |-> TweetAttempt(children[i]) ]

\* a query whose inserts are one transaction: a throw in the loop takes back
\* the rows the loop has inserted
QueryTransaction(db, avail, resp, attempts) ==
    LET start == [db |-> db, inserted |-> 0, err |-> "none", ignored |-> {}, skipped |-> {}]
        end == InsertLoop(start, attempts, avail)
    IN CASE resp.kind = "ok" -> IF end.err = "none" THEN end ELSE [start EXCEPT !.err = end.err]
         [] resp.kind = "badjson" -> [start EXCEPT !.err = "SyntaxError"]
         [] OTHER -> [start EXCEPT !.err = resp.kind]

\* one endpoint query from the fetch to the end of its try block: err is
\* "none", the reason the response was not usable, or what the loop threw
Query(db, avail, resp, attempts) ==
    LET start == [db |-> db, inserted |-> 0, err |-> "none", ignored |-> {}, skipped |-> {}] IN
    CASE resp.kind = "ok" -> InsertLoop(start, attempts, avail)
      [] resp.kind = "badjson" -> [start EXCEPT !.err = "SyntaxError"]
      [] OTHER -> [start EXCEPT !.err = resp.kind]

\* try blocks that end before the loop over the items: only what fetch and
\* res.json() throw is caught
CaughtFetchOnly(endpoint, err) == err \in {"neterr", "SyntaxError"}

\* the catch clauses of the four try blocks catch whatever was thrown
Caught(endpoint, err) == TRUE

\* REDDIT_SUBREDDITS.filter((s) => s !== REDDIT_PRIMARY_SUB)
\* a filter that keeps every configured channel
AnySub(sub) == TRUE

IsSecondary(sub) == sub # REDDIT_PRIMARY_SUB

searchSubs == SelectSeq(REDDIT_SUBREDDITS, IsSecondary)

\* ------------------------------------------------------------ poll cycles
\* a cycle is one call of pollAll: what started it, the position of its
\* pollReddit task (rpc, and si the index of the secondary search awaited) and
\* of its pollX task (xpc), the inserted counter of pollReddit (those of
\* pollSubredditComments and pollX live within one step and go to the
\* console), whether an endpoint query of the cycle failed, the requests sent
NewCycle ==
    [trigger |-> "none", rpc |-> "idle", si |-> 0, xpc |-> "idle",
     inserted |-> 0, failed |-> FALSE, requests |-> <<>>]

InFlight == BagToSet(cycle)


\* no /api response since the latest step of a cycle
NoResponse == [route |-> "", status |-> 0]

Line(level, text, msg) == [level |-> level, text |-> text, msg |-> msg]

CountLine(text, n) == [level |-> "log", text |-> text, msg |-> NumStr(n)]

Thrown(err) == err \notin {"none", "non2xx"}

Settled(pc) == pc \in {"done", "rejected"}

\* pollX without its credential test
pollXStartNoGate == "search"

\* where pollX stands when pollAll reaches its await: without a credential
\* it has already returned
pollXStart == IF X_BEARER_TOKEN = "" THEN "done" ELSE "search"

\* Promise.race: the first task to settle ends the wait
anySettled(cy) == Settled(cy.rpc) \/ Settled(cy.xpc)

\* Promise.allSettled([pollReddit(), pollX()])
allSettled(cy) == Settled(cy.rpc) /\ Settled(cy.xpc)

\* a pollAll call at its await: pollReddit has run to its first fetch, then
\* pollX has run to its fetch or returned
Started(trig) ==
    [NewCycle EXCEPT !.trigger = trig, !.rpc = "new", !.xpc = pollXStart,
                     !.requests = IF pollXStart = "search" THEN <<"new", "x">> ELSE <<"new">>]

StartLines ==
    << Line("log", "[reddit] polling...", ""),
       IF X_BEARER_TOKEN = ""
       THEN Line("warn", "[x] skipping - no X_BEARER_TOKEN set", "")
       ELSE Line("log", "[x] polling...", "") >>

\* counts read when the request came in, before the cycle
refreshResponseEarly(db) ==
    IF dbAvailable
    THEN [route |-> "/api/refresh", status |-> 200, ok |-> TRUE, counts |-> countBySource(posts)]
    ELSE [route |-> "/api/refresh", status |-> 500]

\* SELECT source, COUNT(*) ... of POST /api/refresh, then res.json: reading an
\* unavailable store throws and no summary is sent
refreshResponse(db) ==
    IF dbAvailable
    THEN [route |-> "/api/refresh", status |-> 200, ok |-> TRUE, counts |-> countBySource(db)]
    ELSE [route |-> "/api/refresh", status |-> 500]

\* a refresh request that waits for whichever cycle ends next
ResumeAnyCycle(cy, new, db) ==
    IF allSettled(new)
    THEN /\ cycle' = cycle (-) SetToBag({cy})
         /\ response' = IF \E c \in InFlight : c.trigger = "refresh"
                        THEN refreshResponse(db) ELSE NoResponse
    ELSE /\ cycle' = (cycle (-) SetToBag({cy})) (+) SetToBag({new})
         /\ response' = NoResponse

\* a task of the cycle cy has run to its next await or to its end, leaving
\* the cycle as new and the table as db. When that settles the second task,
\* the await of pollAll returns in the same turn of the event loop: a cycle
\* started by app.listen or cron is over, POST /api/refresh goes on to respond
Resume(cy, new, db) ==
    IF allSettled(new)
    THEN /\ cycle' = cycle (-) SetToBag({cy})
         /\ response' = IF new.trigger = "refresh" THEN refreshResponse(db) ELSE NoResponse
    ELSE /\ cycle' = (cycle (-) SetToBag({cy})) (+) SetToBag({new})
         /\ response' = NoResponse

\* pollAll() up to its await
pollAll(trig) ==
    /\ cycle' = cycle (+) SetToBag({Started(trig)})
    /\ console' = StartLines
    /\ ignored' = {}
    /\ skipped' = {}

\* a pollReddit that returns at the first failed query
AfterPostsAbort(cy) ==
    IF cy.failed THEN [cy EXCEPT !.rpc = "done"]
    ELSE IF cy.si < Len(searchSubs)
    THEN [cy EXCEPT !.rpc = "search", !.si = @ + 1,
                    !.requests = Append(@, "search:" \o searchSubs[cy.si + 1])]
    ELSE [cy EXCEPT !.rpc = "comments", !.requests = Append(@, "comments")]

\* pollReddit after a post query: the next secondary search is sent, or after
\* the last one pollSubredditComments sends its fetch
AfterPosts(cy) ==
    IF cy.si < Len(searchSubs)
    THEN [cy EXCEPT !.rpc = "search", !.si = @ + 1,
                    !.requests = Append(@, "search:" \o searchSubs[cy.si + 1])]
    ELSE [cy EXCEPT !.rpc = "comments", !.requests = Append(@, "comments")]

\* the done line of pollReddit, written before pollSubredditComments is called
DoneLine(cy) ==
    IF cy.rpc = "comments" THEN << CountLine("[reddit] done", cy.inserted) >> ELSE <<>>

\* the primary listing answers: lines 136-161, then the first search is sent
RedditNew(cy, R) ==
    /\ cy.rpc = "new"
    /\ \E resp \in R :
        LET q == Query(posts, dbAvailable, resp, PostAttempts(resp.children))
            cy1 == [cy EXCEPT !.inserted = @ + q.inserted, !.failed = @ \/ q.err # "none"]
            errs == IF Thrown(q.err)
                    THEN << Line("error", "[reddit] error fetching r/puertovallarta/new", q.err) >>
                    ELSE <<>>
        IN /\ posts' = q.db
           /\ ignored' = q.ignored
           /\ skipped' = q.skipped
           /\ IF Thrown(q.err) /\ ~Caught("new", q.err)
              THEN /\ Resume(cy, [cy1 EXCEPT !.rpc = "rejected"], q.db)
                   /\ console' = <<>>
              ELSE /\ Resume(cy, AfterPosts(cy1), q.db)
                   /\ console' = errs \o DoneLine(AfterPosts(cy1))
    /\ UNCHANGED <<dbAvailable, sessions, X_BEARER_TOKEN, listening>>

\* a secondary search answers: lines 165-194, then the next search or the
\* comments listing is sent
RedditSearch(cy, R) ==
    /\ cy.rpc = "search"
    /\ \E resp \in R :
        LET sub == searchSubs[cy.si]
            q == Query(posts, dbAvailable, resp, PostAttempts(resp.children))
            cy1 == [cy EXCEPT !.inserted = @ + q.inserted, !.failed = @ \/ q.err # "none"]
            errs == IF q.err = "non2xx"
                    THEN << Line("error", "[reddit] r/" \o sub \o " returned status", "") >>
                    ELSE IF Thrown(q.err)
                    THEN << Line("error", "[reddit] error fetching r/" \o sub, q.err) >>
                    ELSE <<>>
        IN /\ posts' = q.db
           /\ ignored' = q.ignored
           /\ skipped' = q.skipped
           /\ IF Thrown(q.err) /\ ~Caught("search", q.err)
              THEN /\ Resume(cy, [cy1 EXCEPT !.rpc = "rejected"], q.db)
                   /\ console' = <<>>
              ELSE /\ Resume(cy, AfterPosts(cy1), q.db)
                   /\ console' = errs \o DoneLine(AfterPosts(cy1))
    /\ UNCHANGED <<dbAvailable, sessions, X_BEARER_TOKEN, listening>>

\* the comments listing answers: lines 207-240, and pollReddit returns
RedditComments(cy, R) ==
    /\ cy.rpc = "comments"
    /\ \E resp \in R :
        LET q == Query(posts, dbAvailable, resp, CommentAttempts(resp.children))
            cy1 == [cy EXCEPT !.failed = @ \/ q.err # "none"]
        IN /\ posts' = q.db
           /\ ignored' = q.ignored
           /\ skipped' = q.skipped
           /\ IF q.err = "non2xx"
              THEN /\ Resume(cy, [cy1 EXCEPT !.rpc = "done"], q.db)
                   /\ console' = << Line("error", "[reddit] r/puertovallarta/comments returned status", "") >>
              ELSE IF Thrown(q.err) /\ ~Caught("comments", q.err)
              THEN /\ Resume(cy, [cy1 EXCEPT !.rpc = "rejected"], q.db)
                   /\ console' = <<>>
              ELSE /\ Resume(cy, [cy1 EXCEPT !.rpc = "done"], q.db)
                   /\ console' = (IF Thrown(q.err)
                                  THEN << Line("error", "[reddit] error fetching comments", q.err) >>
                                  ELSE <<>>)
                                 \o << CountLine("[reddit] new comments", q.inserted) >>
    /\ UNCHANGED <<dbAvailable, sessions, X_BEARER_TOKEN, listening>>

\* the microblog search answers: lines 256-286, and pollX returns
XSearch(cy, R) ==
    /\ cy.xpc = "search"
    /\ \E resp \in R :
        LET q == Query(posts, dbAvailable, resp, TweetAttempts(resp.children))
            cy1 == [cy EXCEPT !.failed = @ \/ q.err # "none"]
        IN /\ posts' = q.db
           /\ ignored' = q.ignored
           /\ skipped' = q.skipped
           /\ IF q.err = "non2xx"
              THEN /\ Resume(cy, [cy1 EXCEPT !.xpc = "done"], q.db)
                   /\ console' = << Line("error", "[x] returned status", "") >>
              ELSE IF Thrown(q.err) /\ ~Caught("x", q.err)
              THEN /\ Resume(cy, [cy1 EXCEPT !.xpc = "rejected"], q.db)
                   /\ console' = <<>>
              ELSE /\ Resume(cy, [cy1 EXCEPT !.xpc = "done"], q.db)
                   /\ console' = (IF Thrown(q.err)
                                  THEN << Line("error", "[x] error", q.err) >>
                                  ELSE <<>>)
                                 \o << CountLine("[x] done", q.inserted) >>
    /\ UNCHANGED <<dbAvailable, sessions, X_BEARER_TOKEN, listening>>

\* ------------------------------------------------------- session and routes
\* a requireAuth that takes any cookie for a session
AnyCookie(token) == token # ""

\* requireAuth: the cookie's token is in the session set
Authorised(token) == token # "" /\ token \in sessions

\* POST /login: a wrong password is sent back to the form; the right one
\* gets a new token, added to the session set and sent as the cookie
Login(password) ==
    /\ listening
    /\ IF password # AUTH_PASSWORD
       THEN /\ sessions' = sessions
            /\ response' = [route |-> "/login", status |-> 302, location |-> "/login?error=1"]
       ELSE \E token \in Tokens :
            /\ sessions' = sessions \cup {token}
            /\ response' = [route |-> "/login", status |-> 302, location |-> "/", cookie |-> token]
    /\ UNCHANGED <<posts, dbAvailable, X_BEARER_TOKEN, listening, cycle, console, ignored, skipped>>

\* a logout that clears the cookie and leaves the session set as it is
LogoutCookieOnly(token) ==
    /\ listening
    /\ sessions' = sessions
    /\ response' = [route |-> "/logout", status |-> 302, location |-> "/login", cookie |-> ""]
    /\ UNCHANGED <<posts, dbAvailable, X_BEARER_TOKEN, listening, cycle, console, ignored, skipped>>

\* GET /logout: the token of the cookie leaves the session set, the cookie
\* is cleared
Logout(token) ==
    /\ listening
    /\ sessions' = IF token # "" THEN sessions \ {token} ELSE sessions
    /\ response' = [route |-> "/logout", status |-> 302, location |-> "/login", cookie |-> ""]
    /\ UNCHANGED <<posts, dbAvailable, X_BEARER_TOKEN, listening, cycle, console, ignored, skipped>>

\* the paths behind requireAuth whose req.path starts with /api/
ApiRoutes == {"/api/reddit", "/api/x", "/api/all", "/api/refresh"}

\* requireAuth turns down a request: 401 for a path under /api/, for any
\* other path a redirect to /login
Unauthorized(token, route) ==
    /\ listening
    /\ ~Authorised(token)
    /\ response' = IF route \in ApiRoutes
                   THEN [route |-> route, status |-> 401]
                   ELSE [route |-> route, status |-> 302, location |-> "/login"]
    /\ UNCHANGED <<posts, dbAvailable, sessions, X_BEARER_TOKEN, listening, cycle, console, ignored, skipped>>

\* POST /api/refresh up to its await: requireAuth lets it pass, then pollAll();
\* limit bounds the cycles in flight
Refresh(token, limit) ==
    /\ listening
    /\ Authorised(token)
    /\ BagCardinality(cycle) < limit
    /\ pollAll("refresh")
    /\ response' = NoResponse
    /\ UNCHANGED <<posts, dbAvailable, sessions, X_BEARER_TOKEN, listening>>

\* ---------------------------------------------------------------- scheduler
\* a callback that schedules the cron job and starts no cycle
ListenNoPoll ==
    /\ ~listening
    /\ listening' = TRUE
    /\ UNCHANGED <<posts, dbAvailable, sessions, X_BEARER_TOKEN, cycle, console, ignored, skipped, response>>

\* the app.listen callback: one cycle at once, then the cron job is scheduled
Listen ==
    /\ ~listening
    /\ listening' = TRUE
    /\ pollAll("startup")
    /\ response' = NoResponse
    /\ UNCHANGED <<posts, dbAvailable, sessions, X_BEARER_TOKEN>>

\* the cron job fires
CronTick(limit) ==
    /\ listening
    /\ BagCardinality(cycle) < limit
    /\ pollAll("cron")
    /\ response' = NoResponse
    /\ UNCHANGED <<posts, dbAvailable, sessions, X_BEARER_TOKEN, listening>>

\* the store becomes unavailable
DbFail ==
    /\ dbAvailable
    /\ dbAvailable' = FALSE
    /\ UNCHANGED <<posts, sessions, X_BEARER_TOKEN, listening, cycle, console, ignored, skipped, response>>

\* ------------------------------------------------------------ specification
\* the process has started: no row, no session, nothing scheduled
Init ==
    /\ posts = EmptyBag
    /\ dbAvailable = TRUE
    /\ sessions = {}
    /\ X_BEARER_TOKEN \in {"", "secret"}
    /\ listening = FALSE
    /\ cycle = EmptyBag
    /\ console = <<>>
    /\ ignored = {}
    /\ skipped = {}
    /\ response = NoResponse

\* the server is up, with or without a microblog credential: the app.listen
\* callback has run, the startup cycle is in flight and a user has logged in
InitPolling ==
    /\ posts = EmptyBag
    /\ dbAvailable = TRUE
    /\ sessions = Tokens
    /\ X_BEARER_TOKEN \in {"", "secret"}
    /\ listening = TRUE
    /\ cycle = SetToBag({Started("startup")})
    /\ console = StartLines
    /\ ignored = {}
    /\ skipped = {}
    /\ response = NoResponse

\* the steps of the forum task of a cycle in flight, with the responses RP of
\* the post endpoints and RC of the comments listing
PollReddit(RP, RC) ==
    \E cy \in InFlight :
        \/ RedditNew(cy, RP)
        \/ RedditSearch(cy, RP)
        \/ RedditComments(cy, RC)

\* the step of the microblog task of a cycle in flight, with the responses R
PollX(R) == \E cy \in InFlight : XSearch(cy, R)

\* the server polling, one cycle at a time, with every response: a trigger
\* comes when no cycle is in flight
Next ==
    \/ CronTick(1)
    \/ \E token \in Tokens : Refresh(token, 1)
    \/ PollReddit(Responses(RedditChildren, MaxItems), Responses(CommentChildren, MaxItems))
    \/ PollX(Responses(Tweets, MaxItems))
    \/ DbFail

Spec == InitPolling /\ [][Next]_vars

\* overlapping cycles: no microblog credential, the store is available and
\* every fetch succeeds with well-formed items
Fetched(S, n) == { [kind |-> "ok", children |-> cs] : cs \in SeqsUpTo(S, n) }
GoodPosts == { ch \in RedditChildren : PostAttempt(ch).act = "insert" }
GoodComments == { ch \in CommentChildren : CommentAttempt(ch).act = "insert" }

InitOverlap == InitPolling /\ X_BEARER_TOKEN = ""

NextOverlap ==
    \/ CronTick(MaxCycles)
    \/ \E token \in Tokens : Refresh(token, MaxCycles)
    \/ PollReddit(Fetched(GoodPosts, MaxItems), Fetched(GoodComments, MaxItems))

SpecOverlap == InitOverlap /\ [][NextOverlap]_vars

\* the server from the start of the process: sessions, requests with and
\* without a session, one cycle at a time with well-formed responses
NextServer ==
    \/ Listen
    \/ CronTick(1)
    \/ \E password \in {AUTH_PASSWORD, "wrong"} : Login(password)
    \/ \E token \in Tokens \cup {""} :
          \/ Logout(token)
          \/ Refresh(token, 1)
          \/ Unauthorized(token, "/api/refresh")
    \/ PollReddit(Fetched(GoodPosts, 1), Fetched(GoodComments, 1))
    \/ PollX(Fetched(Tweets, 1))

SpecServer == Init /\ [][NextServer]_vars

\* the options the four fetch calls pass: the headers, and no signal that
\* would abort the call after a time
fetchOptions == {"headers"}

\* the endpoint a task awaits never answers: without a signal the await of
\* fetch stays pending, and hung is a position no step leaves
Hang(cy) ==
    /\ "signal" \notin fetchOptions
    /\ \/ /\ cy.rpc \in {"new", "search", "comments"}
          /\ cycle' = (cycle (-) SetToBag({cy})) (+) SetToBag({[cy EXCEPT !.rpc = "hung"]})
       \/ /\ cy.xpc = "search"
          /\ cycle' = (cycle (-) SetToBag({cy})) (+) SetToBag({[cy EXCEPT !.xpc = "hung"]})
    /\ UNCHANGED <<posts, dbAvailable, sessions, X_BEARER_TOKEN, listening, console, ignored, skipped, response>>

EndpointHangs == \E cy \in InFlight : Hang(cy)

\* the server polling, one cycle at a time, with endpoints that answer one
\* child at most or never answer; the event loop runs the continuation of
\* every fetch that settles
PollRedditShort == PollReddit(Responses(RedditChildren, 1), Responses(CommentChildren, 1))

PollXShort == PollX(Responses(Tweets, 1))

NextHang ==
    \/ CronTick(1)
    \/ \E token \in Tokens : Refresh(token, 1)
    \/ PollRedditShort
    \/ PollXShort
    \/ EndpointHangs

SpecHang ==
    InitPolling /\ [][NextHang]_vars /\ WF_vars(PollRedditShort) /\ WF_vars(PollXShort)

\* -------------------------------------------------------------- read routes
\* LIMIT 200 of selectBySource and LIMIT 400 of selectAll
selectBySourceLimit == 200

selectAllLimit == 400

\* the created_at texts of the rows, as SQLite orders TEXT: byte by byte,
\* which for these texts of one length is the order of the instants
CreatedAtOrder == <<ToISOString(1000), ToISOString(2000), ToISOString(3000)>>

Range(s) == { s[i] : i \in DOMAIN s }

Reverse(s) == [ i \in DOMAIN s |-> s[Len(s) + 1 - i] ]

\* the elements of a set one after the other, eight at a time
Grow(S, s) == LET R == S \ Range(s) IN IF R = {} THEN s ELSE Append(s, CHOOSE e \in R : TRUE)

Chunk(S) == Grow(S, Grow(S, Grow(S, Grow(S, Grow(S, Grow(S, Grow(S, Grow(S, <<>>))))))))

RECURSIVE Enum(_)
Enum(S) == IF S = {} THEN <<>> ELSE LET c == Chunk(S) IN c \o Enum(S \ Range(c))

\* an ordering that puts the oldest rows first
OrderByCreatedAtAsc(rows, rev) ==
    LET run(k) == LET same == Enum({ r \in rows : r.created_at = CreatedAtOrder[k] })
                  IN IF rev THEN Reverse(same) ELSE same
    IN run(1) \o run(2) \o run(3)

\* ORDER BY created_at DESC: the rows by falling created_at; SQL leaves open
\* the order of rows with the same created_at, which here is some order of
\* them or (rev) that order backwards
OrderByCreatedAtDesc(rows, rev) ==
    LET run(k) == LET same == Enum({ r \in rows : r.created_at = CreatedAtOrder[k] })
                  IN IF rev THEN Reverse(same) ELSE same
    IN run(3) \o run(2) \o run(1)

\* a query without LIMIT
Unlimited(s, n) == s

\* LIMIT n
Limit(s, n) == SubSeq(s, 1, IF Len(s) < n THEN Len(s) ELSE n)

\* a query that leaves out WHERE source = ?
AnySource(row, source) == TRUE

\* WHERE source = ?
FromSource(row, source) == row.source = source

\* selectBySource.all(source)
selectBySource(db, source, rev) ==
    Limit(OrderByCreatedAtDesc({ r \in BagToSet(db) : FromSource(r, source) }, rev), selectBySourceLimit)

\* selectAll.all()
selectAll(db, rev) == Limit(OrderByCreatedAtDesc(BagToSet(db), rev), selectAllLimit)

\* a formatPost that leaves the stored text as it is
formatPostRaw(row) == [row EXCEPT !.metrics = [text |-> row.metrics]]

\* formatPost(row): the row with its metrics parsed, null when the column
\* is NULL or empty
formatPost(row) ==
    [row EXCEPT !.metrics = IF row.metrics \in {Null, ""} THEN JsNull ELSE JsonParse(row.metrics)]

\* res.json({ count: posts.length, posts }) over the rows a query gave; a
\* store that is unavailable makes the query throw, which Express answers 500
Listing(route, rows) ==
    /\ listening
    /\ response' = IF dbAvailable
                   THEN [route |-> route, status |-> 200, count |-> Len(rows),
                         posts |-> [ i \in DOMAIN rows |-> formatPost(rows[i]) ]]
                   ELSE [route |-> route, status |-> 500]
    /\ UNCHANGED <<posts, dbAvailable, sessions, X_BEARER_TOKEN, listening, cycle, console, ignored, skipped>>

\* GET /api/reddit
GetReddit(token) ==
    /\ Authorised(token)
    /\ \E rev \in BOOLEAN : Listing("/api/reddit", selectBySource(posts, "reddit", rev))

\* GET /api/x
GetX(token) ==
    /\ Authorised(token)
    /\ \E rev \in BOOLEAN : Listing("/api/x", selectBySource(posts, "x", rev))

\* GET /api/all
GetAll(token) ==
    /\ Authorised(token)
    /\ \E rev \in BOOLEAN : Listing("/api/all", selectAll(posts, rev))

\* the rows that np posts, nc comments and nx tweets left in the table, all
\* with ids of their own: the posts created at three instants in turn, every
\* second tweet without public_metrics
PostsStored(np) ==
    { PostAttempt([kind |-> "t3",
                   data |-> [id |-> NumStr(i), title |-> "a", selftext |-> "", score |-> 1,
                             created_utc |-> 1 + (i % 3)]]).row : i \in 1..np }

CommentsStored(nc) ==
    { CommentAttempt([kind |-> "t1",
                      data |-> [id |-> NumStr(i), body |-> "hi", score |-> 1, link_id |-> "t3_1",
                                link_title |-> "a", created_utc |-> 2]]).row : i \in 1..nc }

TweetsStored(nx) ==
    { TweetAttempt(IF i % 2 = 1
                   THEN [id |-> NumStr(i), text |-> "pv", created_at |-> "1970-01-01T00:00:03Z"]
                   ELSE [id |-> NumStr(i), text |-> "pv", public_metrics |-> [like_count |-> 3],
                         created_at |-> "1970-01-01T00:00:03Z"]).row : i \in 1..nx }

\* numbers of rows of one source around the limit of selectBySource
RowCounts ==
    {0, 1, 2, selectBySourceLimit - 1, selectBySourceLimit, selectBySourceLimit + 1}

\* the server between two cycles, after polls that stored rows, with a user
\* logged in
InitStored ==
    /\ \E np \in RowCounts, nc \in {0, 1}, nx \in RowCounts :
          posts = SetToBag(PostsStored(np) \cup CommentsStored(nc) \cup TweetsStored(nx))
    /\ dbAvailable = TRUE
    /\ sessions = Tokens
    /\ X_BEARER_TOKEN = "secret"
    /\ listening = TRUE
    /\ cycle = EmptyBag
    /\ console = <<>>
    /\ ignored = {}
    /\ skipped = {}
    /\ response = NoResponse

\* the read routes over a table that stays as it is
NextQuery ==
    \/ \E token \in Tokens : GetReddit(token)
    \/ \E token \in Tokens : GetX(token)
    \/ \E token \in Tokens : GetAll(token)
    \/ DbFail

SpecQuery == InitStored /\ [][NextQuery]_vars

\* two tweets, each seen with and without public_metrics, and a tweet
\* without created_at
TweetsWithout ==
    { [id |-> "1", text |-> "pv", public_metrics |-> [like_count |-> 3], created_at |-> "1970-01-01T00:00:03Z"],
      [id |-> "1", text |-> "pv", created_at |-> "1970-01-01T00:00:03Z"],
      [id |-> "2", text |-> "pv", public_metrics |-> [like_count |-> 3], created_at |-> "1970-01-01T00:00:03Z"],
      [id |-> "2", text |-> "pv", created_at |-> "1970-01-01T00:00:03Z"],
      [id |-> "2", text |-> "pv"] }

PollXWithout == PollX(Fetched(TweetsWithout, MaxItems))

PollRedditEmpty == PollReddit(Fetched({}, 0), Fetched({}, 0))

InitTweets == InitPolling /\ X_BEARER_TOKEN = "secret"

\* the server polling the microblog and listing what it stored, one cycle
\* at a time, the forum answering without items
NextTweets ==
    \/ CronTick(1)
    \/ PollRedditEmpty
    \/ PollXWithout
    \/ \E token \in Tokens : GetX(token)

SpecTweets == InitTweets /\ [][NextTweets]_vars

\* posts whose native id is 1 or starts like the prefix of comment ids
PrefixPosts ==
    { [kind |-> "t3", data |-> [id |-> n, title |-> "a", selftext |-> "", score |-> 1, created_utc |-> 1]] :
        n \in {"1", "comment_1"} }

PollRedditPrefix == PollReddit(Fetched(PrefixPosts, MaxItems), Fetched(GoodComments, MaxItems))

\* the server polling the forum, one cycle at a time, no microblog
\* credential, the posts answered with such ids
NextIds ==
    \/ CronTick(1)
    \/ \E token \in Tokens : Refresh(token, 1)
    \/ PollRedditPrefix

SpecIds == InitOverlap /\ [][NextIds]_vars

\* responses with an item that makes the loop throw: two posts and a child
\* without data, a comment and a comment without data, a tweet and a tweet
\* without created_at
PartialPosts ==
    { [kind |-> "t3", data |-> [id |-> n, title |-> "a", selftext |-> "", score |-> 1, created_utc |-> 1]] :
        n \in {"1", "2"} }
      \cup { [kind |-> "t3"] }

PartialComments == GoodComments \cup { [kind |-> "t1"] }

PartialTweets ==
    { [id |-> "1", text |-> "pv", created_at |-> "1970-01-01T00:00:03Z"],
      [id |-> "2", text |-> "pv"] }

PollRedditPartial == PollReddit(Fetched(PartialPosts, MaxItems), Fetched(PartialComments, MaxItems))

PollXPartial == PollX(Fetched(PartialTweets, MaxItems))

\* the server polling, one cycle at a time, with such responses
NextPartial ==
    \/ CronTick(1)
    \/ PollRedditPartial
    \/ PollXPartial

SpecPartial == InitTweets /\ [][NextPartial]_vars

\* GET /: the dashboard page
Dashboard(token) ==
    /\ listening
    /\ Authorised(token)
    /\ response' = [route |-> "/", status |-> 200]
    /\ UNCHANGED <<posts, dbAvailable, sessions, X_BEARER_TOKEN, listening, cycle, console, ignored, skipped>>

\* the cookies a request can carry: none, or the token of a login
Cookies == Tokens \cup {""}

PollRedditOne == PollReddit(Fetched(GoodPosts, 1), Fetched(GoodComments, 1))

InitAccess == Init /\ X_BEARER_TOKEN = ""

\* the server from the start of the process, without a microblog
\* credential: logins and logouts, and requests to every path behind
\* requireAuth with and without the cookie of a session
NextAccess ==
    \/ Listen
    \/ \E password \in {AUTH_PASSWORD, "wrong"} : Login(password)
    \/ \E token \in Cookies : Logout(token)
    \/ \E token \in Cookies : Refresh(token, 1)
    \/ \E token \in Cookies : GetReddit(token)
    \/ \E token \in Cookies : GetX(token)
    \/ \E token \in Cookies : GetAll(token)
    \/ \E token \in Cookies : Dashboard(token)
    \/ \E token \in Cookies : \E path \in ApiRoutes \cup {"/"} : Unauthorized(token, path)
    \/ PollRedditOne

SpecAccess == InitAccess /\ [][NextAccess]_vars

TypeOK ==
    /\ dbAvailable \in BOOLEAN
    /\ sessions \subseteq Tokens
    /\ listening \in BOOLEAN
    /\ \A cy \in InFlight :
        /\ cy.rpc \in {"new", "search", "comments", "done", "rejected", "hung"}
        /\ cy.xpc \in {"search", "done", "rejected", "hung"}

\* ------------------------------------------------------------- properties
NativeIds == {"1", "2"}

\* the rows the adapters can pass to insertPost.run
AllRows ==
    { PostAttempt(ch).row : ch \in GoodPosts }
      \cup { CommentAttempt(ch).row : ch \in GoodComments }
      \cup { TweetAttempt(tw).row : tw \in { t \in Tweets : TweetAttempt(t).act = "insert" } }

\* the number of stored rows with this id
RowsWithId(db, id) ==
    BagCardinality([ r \in { q \in BagToSet(db) : q.id = id } |-> db[r] ])

\* C1: under overlapping cycles started by the timer and by refresh requests,
\* the store never holds two rows with the same id
C1_OneRowPerId ==
    \A r \in BagToSet(posts) : RowsWithId(posts, r.id) = 1

\* two cycles in flight have fetched the same post: one inserted it, the
\* insert of the other was ignored
C1_Witness ==
    \E cy1, cy2 \in InFlight :
        /\ cy1.inserted = 1 /\ cy2.inserted = 0
        /\ cy2.rpc = "search"
        /\ \E r \in ignored : r.source = "reddit" /\ RowsWithId(posts, r.id) = 1

\* C2: an upsert of an id that is not stored reports changes = 1, a second
\* upsert of the same id reports changes = 0 and leaves the store as it was,
\* with exactly one row for that id
C2_UpsertIdempotent ==
    /\ \A row, again \in AllRows :
        again.id = row.id =>
            LET first == insertPost(posts, row)
                second == insertPost(first.db, again)
            IN /\ row.id \notin RowIds(posts) => first.changes = 1
               /\ second.changes = 0
               /\ second.db = first.db
               /\ RowsWithId(second.db, row.id) = 1
    /\ \A r \in ignored : RowsWithId(posts, r.id) = 1

\* one forum task has inserted a post and has then been answered the same
\* post again: that second insert changed nothing
C2_Witness ==
    \E cy \in InFlight :
        /\ cy.inserted = 1
        /\ \E r \in ignored : r.source = "reddit" /\ BagIn(r, posts)

\* C3: a stored row stays stored with the same field values in every later
\* state, whatever step is taken
C3_RowsPermanent ==
    [][\A r \in BagToSet(posts) :
          /\ BagIn(r, posts')
          /\ \A q \in BagToSet(posts') : q.id = r.id => q = r]_vars

\* the latest step passed to insertPost.run a row whose id is stored with
\* other field values, and the stored row is the one that stayed
C3_Witness ==
    \E r \in ignored : \E q \in BagToSet(posts) :
        q.id = r.id /\ q # r /\ (q.score # r.score \/ q.metrics # r.metrics)

\* the forum requests of one pollReddit call, in the order of the code
ForumRequests ==
    <<"new">> \o [ i \in 1..Len(searchSubs) |-> "search:" \o searchSubs[i] ] \o <<"comments">>

IsForumRequest(r) == r # "x"

\* the forum requests a cycle has sent, and how many its position stands for
ForumSent(cy) == SelectSeq(cy.requests, IsForumRequest)
ForumPosition(cy) ==
    CASE cy.rpc = "new" -> 1
      [] cy.rpc = "search" -> 1 + cy.si
      [] cy.rpc \in {"comments", "done"} -> Len(ForumRequests)
      [] OTHER -> 0

\* the query answered resp stores a row for every item of resp
Stored(resp, attempts) ==
    LET q == Query(posts, dbAvailable, resp, attempts)
    IN /\ q.err = "none"
       /\ \A i \in DOMAIN attempts : attempts[i].row.id \in RowIds(q.db)

StoredRow(id, source) == \E r \in BagToSet(posts) : r.id = id /\ r.source = source

ErrorLines == { i \in DOMAIN console : console[i].level = "error" }

\* C4: a post and a comment with the same native id get two distinct ids; a
\* row an adapter passes to the store is never ignored for a row of another
\* source, and every stored row carries the id of its own source
C4_PostAndCommentDistinct ==
    /\ \A n \in NativeIds : PostId(n) # CommentId(n)
    /\ \A r \in ignored : StoredRow(r.id, r.source)
    /\ \A r \in BagToSet(posts) :
         /\ r.source = "reddit" => \E n \in NativeIds : r.id = PostId(n)
         /\ r.source = "reddit_comment" =>
               /\ \E n \in NativeIds : r.id = CommentId(n)
               /\ \A n \in NativeIds : r.id # PostId(n)

\* a cycle has ended whose listing answered post 1 and whose comments listing
\* answered comment 1: the comment was inserted and both rows are stored
C4_Witness ==
    /\ cycle = EmptyBag
    /\ StoredRow(PostId("1"), "reddit")
    /\ StoredRow(CommentId("1"), "reddit_comment")
    /\ \E i \in DOMAIN console : console[i] = CountLine("[reddit] new comments", 1)

\* C5: a failed query of a cycle leaves the other queries of the cycle as
\* they are: the forum task has sent every request its position stands for,
\* failed or not, and whatever well-formed response the awaited endpoints of
\* a failed cycle give, every item of it gets stored
C5_FailureIsolated ==
    \A cy \in InFlight :
        /\ ForumSent(cy) = SubSeq(ForumRequests, 1, ForumPosition(cy))
        /\ cy.failed /\ dbAvailable =>
            /\ cy.rpc \in {"new", "search"} =>
                  \A resp \in Fetched(GoodPosts, MaxItems) : Stored(resp, PostAttempts(resp.children))
            /\ cy.rpc = "comments" =>
                  \A resp \in Fetched(GoodComments, MaxItems) : Stored(resp, CommentAttempts(resp.children))
            /\ cy.xpc = "search" =>
                  \A resp \in Fetched({ t \in Tweets : Has(t, "created_at") }, MaxItems) :
                      Stored(resp, TweetAttempts(resp.children))

\* a query of the cycle has failed, another query of the same cycle has
\* inserted its post, and the comments listing is awaited
C5_Witness ==
    \E cy \in InFlight :
        /\ cy.failed /\ cy.inserted = 1 /\ cy.rpc = "comments"
        /\ StoredRow(PostId("1"), "reddit")

\* C6: no stored comment row, and no row the comments step passes to the
\* store, has an empty, deleted or removed body
C6_NoDeletedComment ==
    /\ \A r \in BagToSet(posts) :
          r.source = "reddit_comment" => r.body \notin {"", "[deleted]", "[removed]"}
    /\ \A r \in ignored :
          r.source = "reddit_comment" => r.body \notin {"", "[deleted]", "[removed]"}

\* the comments listing answered a removed or deleted comment and comment 1:
\* the first was passed over, the second inserted
C6_Witness ==
    /\ \E ch \in skipped : ch.kind = "t1" /\ ch.data.body \in {"[deleted]", "[removed]"}
    /\ StoredRow(CommentId("1"), "reddit_comment")
    /\ \E i \in DOMAIN console : console[i] = CountLine("[reddit] new comments", 1)

XTexts == {"[x] polling...", "[x] returned status", "[x] error", "[x] done"}

\* C7: without a microblog credential no cycle sends the microblog request,
\* pollX has returned when pollAll awaits, no microblog row is stored, the
\* only console line of pollX is the note of the skip, and the forum task
\* sends its requests as it does with a credential
C7_CredentialGating ==
    X_BEARER_TOKEN = "" =>
        /\ \A cy \in InFlight :
              /\ cy.xpc = "done"
              /\ \A i \in DOMAIN cy.requests : cy.requests[i] # "x"
              /\ cy.requests = SubSeq(ForumRequests, 1, ForumPosition(cy))
        /\ \A r \in BagToSet(posts) : r.source # "x"
        /\ \A i \in DOMAIN console : console[i].text \notin XTexts
        /\ (\E i \in DOMAIN console : console[i].text = "[reddit] polling...") =>
              \E i \in DOMAIN console :
                  console[i] = Line("warn", "[x] skipping - no X_BEARER_TOKEN set", "")

\* without a credential a refresh cycle has ended without an error line in
\* its last step: the summary counts one forum row and no microblog row
C7_Witness ==
    /\ X_BEARER_TOKEN = ""
    /\ cycle = EmptyBag
    /\ ErrorLines = {}
    /\ response.status = 200
    /\ DOMAIN response.counts = {"reddit"}
    /\ response.counts["reddit"] = 1

\* C8: no task of a cycle is rejected, whatever the endpoints answer, and
\* while the store is available a refresh request is answered with the summary
C8_FailuresContained ==
    /\ \A cy \in InFlight : cy.rpc # "rejected" /\ cy.xpc # "rejected"
    /\ (response.route = "/api/refresh" /\ dbAvailable) =>
          response.status = 200 /\ Has(response, "counts")

\* a query of a refresh cycle has failed, its last query threw on an item
\* with an invalid field, and the request was answered with the summary
C8_Witness ==
    /\ dbAvailable
    /\ response.route = "/api/refresh" /\ response.status = 200
    /\ \E i \in ErrorLines : console[i].msg \in {"TypeError", "RangeError"}

\* C9: a failure of the store in insertPost.run leaves the adapter as a
\* rejection of its task: it is not written to the console as the failure of
\* an endpoint by a task that goes on
C9_StoreFailurePropagates ==
    (\E i \in ErrorLines : console[i].msg = "SqliteError") =>
        \A cy \in InFlight : cy.rpc = "rejected" \/ cy.xpc = "rejected"

\* C10: both tasks of a cycle are started before pollAll awaits (the listing
\* request is sent, and with a credential the microblog request), a cycle in
\* flight has a task pending and that task can take its step whether or not
\* the other has settled or failed, and a cycle ends only in a step before
\* which one of its tasks had settled
C10_WaitForAll ==
    [][\A cy \in InFlight :
          /\ cy.rpc # "idle" /\ cy.xpc # "idle"
          /\ cy.requests[1] = "new"
          /\ X_BEARER_TOKEN # "" => Len(cy.requests) >= 2 /\ cy.requests[2] = "x"
          /\ ~Settled(cy.rpc) \/ ~Settled(cy.xpc)
          /\ (~BagIn(cy, cycle') /\ BagCardinality(cycle') < BagCardinality(cycle)) =>
                Settled(cy.rpc) \/ Settled(cy.xpc)
          /\ ~Settled(cy.rpc) =>
                ForumSent(cy) = SubSeq(ForumRequests, 1, ForumPosition(cy))]_vars

\* the microblog search has just failed and pollX has returned, while the
\* forum task of the same cycle still awaits a search
C10_Witness ==
    \E cy \in InFlight :
        /\ cy.xpc = "done" /\ cy.failed /\ cy.rpc = "search"
        /\ \E i \in ErrorLines : console[i].text \in {"[x] error", "[x] returned status"}

\* C11: every cycle that has started comes to its end, also when an
\* endpoint never answers
C11_CycleCompletes == (cycle # EmptyBag) ~> (cycle = EmptyBag)

\* C12: the scheduler keeps the cycles in flight under a fixed bound of its
\* own. Neither the cron job nor POST /api/refresh tests for a cycle in
\* flight: the only bound on the triggers is MaxCycles, the bound of this
\* model, and a scheduler with a bound of its own would stay below it
C12_BoundedOverlap == BagCardinality(cycle) < MaxCycles

C14_RefreshSynchronous ==
    [][(cycle' # cycle /\ response'.route = "/api/refresh") =>
          /\ BagCardinality(cycle') < BagCardinality(cycle)
          /\ \E cy \in InFlight :
                /\ cy.trigger = "refresh"
                /\ CopiesIn(cy, cycle') < CopiesIn(cy, cycle)
                /\ (response'.status = 200 /\ cy.inserted > 0) =>
                      /\ "reddit" \in DOMAIN response'.counts
                      /\ response'.counts["reddit"] >= cy.inserted
          /\ response'.status = 200 =>
                \A src \in {"reddit", "reddit_comment", "x"} :
                    IF \E r \in BagToSet(posts') : r.source = src
                    THEN /\ src \in DOMAIN response'.counts
                         /\ response'.counts[src] =
                               BagCardinality([ r \in { q \in BagToSet(posts') : q.source = src }
                                                  |-> posts'[r] ])
                    ELSE src \notin DOMAIN response'.counts]_vars

\* the last step of a refresh cycle inserted a comment, and the answer
\* counts it
C14_Witness ==
    /\ response.route = "/api/refresh" /\ response.status = 200
    /\ \E i \in DOMAIN console : console[i] = CountLine("[reddit] new comments", 1)
    /\ "reddit_comment" \in DOMAIN response.counts
    /\ response.counts["reddit_comment"] = 1

\* C15: a cycle ends with a report that tells, for the forum, whether its
\* queries succeeded and how many posts the cycle inserted. What a cycle
\* gives back is the answer to POST /api/refresh: its ok is to tell whether a
\* query of the cycle failed, its forum count the posts the cycle inserted
C15_CycleReport ==
    [][(cycle' # cycle /\ response'.route = "/api/refresh" /\ response'.status = 200) =>
          \E cy \in InFlight :
              /\ cy.trigger = "refresh"
              /\ CopiesIn(cy, cycle') < CopiesIn(cy, cycle)
              /\ response'.ok = ~(cy.failed \/ \E i \in DOMAIN console' : console'[i].level = "error")
              /\ (IF "reddit" \in DOMAIN response'.counts THEN response'.counts["reddit"] ELSE 0)
                    = cy.inserted]_vars

\* the rows a step adds to the table
Added == BagCardinality(posts') - BagCardinality(posts)

\* the count of the console line with this text, "0" when there is none
LineCount(cons, text) ==
    IF \E i \in DOMAIN cons : cons[i].text = text
    THEN (CHOOSE l \in { cons[i] : i \in DOMAIN cons } : l.text = text).msg
    ELSE "0"

\* C16: in every step of a task the count it reports is the number of rows
\* the step added to the table: the inserted counter of pollReddit grows by
\* the rows a post query added and is what the done line tells, the counts
\* of the comments line and of the microblog line are the rows their step
\* added. A post that two cycles in flight fetch is a row added, and counted,
\* in one step only
C16_CountExact ==
    [][\A cy \in InFlight :
          /\ cycle' = cycle (-) SetToBag({cy}) =>
                NumStr(Added) = LineCount(console', IF cy.rpc = "comments"
                                                    THEN "[reddit] new comments"
                                                    ELSE "[x] done")
          /\ \A cy2 \in BagToSet(cycle') :
                (cy2 # cy /\ cycle' = (cycle (-) SetToBag({cy})) (+) SetToBag({cy2})) =>
                    IF cy2.rpc # cy.rpc \/ cy2.si # cy.si
                    THEN IF cy.rpc = "comments"
                         THEN /\ NumStr(Added) = LineCount(console', "[reddit] new comments")
                              /\ cy2.inserted = cy.inserted
                         ELSE /\ Added = cy2.inserted - cy.inserted
                              /\ cy2.rpc = "comments" =>
                                    LineCount(console', "[reddit] done") = NumStr(cy2.inserted)
                    ELSE /\ NumStr(Added) = LineCount(console', "[x] done")
                         /\ cy2.inserted = cy.inserted]_vars

\* two cycles in flight have fetched the same post: one has counted it, the
\* other has reported no post inserted, and the table holds the one row
C16_Witness ==
    /\ BagCardinality(posts) = 1
    /\ ignored # {}
    /\ \E i \in DOMAIN console : console[i] = CountLine("[reddit] done", 0)
    /\ \E cy1, cy2 \in InFlight :
          cy1.inserted = 1 /\ cy2.inserted = 0 /\ cy2.rpc = "comments"

\* the place of a created_at text in the order of the texts
CreatedRank(text) == CHOOSE k \in DOMAIN CreatedAtOrder : CreatedAtOrder[k] = text

\* the response is the list that the route sent
Listed(route) == response.route = route /\ response.status = 200

\* C17 as stated: the list of GET /api/all is strictly descending by
\* createdAt, each item's createdAt is greater than that of the next item.
C17_StrictlyDescending ==
    Listed("/api/all") =>
        \A i \in 1..(response.count - 1) :
            CreatedRank(response.posts[i].created_at) > CreatedRank(response.posts[i + 1].created_at)

\* C17 amended: in the list of GET /api/all no item is older than the item
\* after it; items with the same createdAt follow one another.
C17_Descending ==
    Listed("/api/all") =>
        \A i \in 1..(response.count - 1) :
            CreatedRank(response.posts[i].created_at) >= CreatedRank(response.posts[i + 1].created_at)

\* a list of GET /api/all with two neighbours of one createdAt and two
\* neighbours of different createdAt
C17_Witness ==
    /\ Listed("/api/all")
    /\ \E i \in 1..(response.count - 1) :
          response.posts[i].created_at = response.posts[i + 1].created_at
    /\ \E i \in 1..(response.count - 1) :
          response.posts[i].created_at # response.posts[i + 1].created_at

\* the rows of one source in the table
RowsOf(source) == { r \in BagToSet(posts) : r.source = source }

\* the routes that list one source, and the source each lists
SourceRoutes == {"/api/reddit", "/api/x"}

SourceOf(route) == IF route = "/api/reddit" THEN "reddit" ELSE "x"

\* C18: a list of one source has at most 200 items and the list of all
\* sources at most 400, however many rows the table holds, and the count
\* reported with a list is the number of its items.
C18_QueryCaps ==
    /\ \A route \in SourceRoutes :
          Listed(route) => /\ Len(response.posts) <= 200
                           /\ response.count = Len(response.posts)
    /\ Listed("/api/all") => /\ Len(response.posts) <= 400
                             /\ response.count = Len(response.posts)

\* the table holds more than 400 rows, more than 200 of them forum posts,
\* and the list of all sources came with 400 items
C18_Witness ==
    /\ Listed("/api/all")
    /\ BagCardinality(posts) > 400
    /\ Cardinality(RowsOf("reddit")) > 200
    /\ response.count = 400
    /\ Len(response.posts) = 400

\* the ids of the items of the list sent
ListedIds == { response.posts[i].id : i \in DOMAIN response.posts }

\* C19: the list of one source holds only rows of that source, each of them
\* a row of the table listed once, no item older than the item after it, and
\* they are the most recent ones: no row of the source that the list leaves
\* out is newer than an item of the list.
C19_SourceQuery ==
    \A route \in SourceRoutes :
        Listed(route) =>
            LET s == SourceOf(route)
                items == response.posts
                left == { r \in RowsOf(s) : r.id \notin ListedIds }
            IN /\ \A i \in DOMAIN items :
                     /\ items[i].source = s
                     /\ \E r \in RowsOf(s) : r.id = items[i].id /\ r.created_at = items[i].created_at
               /\ Cardinality(ListedIds) = Len(items)
               /\ \A i \in 1..(Len(items) - 1) :
                     CreatedRank(items[i].created_at) >= CreatedRank(items[i + 1].created_at)
               /\ \A r \in left : \A i \in DOMAIN items :
                     CreatedRank(r.created_at) <= CreatedRank(items[i].created_at)

\* the list of forum posts left out a post, with posts of three instants in
\* the list and rows of the other sources in the table
C19_Witness ==
    /\ Listed("/api/reddit")
    /\ \E r \in RowsOf("reddit") : r.id \notin ListedIds
    /\ \A k \in DOMAIN CreatedAtOrder :
          \E i \in DOMAIN response.posts : response.posts[i].created_at = CreatedAtOrder[k]
    /\ RowsOf("x") # {}
    /\ RowsOf("reddit_comment") # {}

\* the row of the table with this id
RowWithId(db, id) == CHOOSE r \in BagToSet(db) : r.id = id

\* C20: a tweet without public_metrics is inserted like any other: the step
\* that takes the response stores a row for it whose metrics formatPost
\* gives back as the empty map, and a response whose tweets all carry
\* created_at is stored whole, without an error line; GET /api/x lists such
\* a row with the empty map as its metrics.
C20_NoMetricsInserted ==
    /\ [][\A cy \in InFlight : \A resp \in Fetched(TweetsWithout, MaxItems) :
            XSearch(cy, {resp}) =>
                LET ts == resp.children IN
                /\ \A i \in DOMAIN ts :
                      (/\ ~Has(ts[i], "public_metrics")
                       /\ \A j \in 1..i : Has(ts[j], "created_at"))
                      => /\ TweetId(ts[i].id) \in RowIds(posts')
                         /\ (/\ TweetId(ts[i].id) \notin RowIds(posts)
                             /\ \A j \in 1..(i - 1) : ts[j].id # ts[i].id)
                            => /\ RowWithId(posts', TweetId(ts[i].id)).metrics = "{}"
                               /\ DOMAIN formatPost(RowWithId(posts', TweetId(ts[i].id))).metrics = {}
                /\ (\A i \in DOMAIN ts : Has(ts[i], "created_at"))
                      => /\ \A i \in DOMAIN ts : TweetId(ts[i].id) \in RowIds(posts')
                         /\ \A k \in DOMAIN console' : console'[k].level # "error"
                         /\ console'[Len(console')].text = "[x] done"
                         /\ console'[Len(console')].msg = NumStr(Added)]_vars
    /\ [](Listed("/api/x") =>
            \A i \in DOMAIN response.posts :
                RowWithId(posts, response.posts[i].id).metrics = "{}"
                    => DOMAIN response.posts[i].metrics = {})

\* GET /api/x lists two tweets, one stored without public_metrics and
\* listed with the empty map, one listed with its counters
C20_Witness ==
    /\ Listed("/api/x")
    /\ response.count = 2
    /\ \E i \in DOMAIN response.posts : DOMAIN response.posts[i].metrics = {}
    /\ \E i \in DOMAIN response.posts : response.posts[i].metrics = [like_count |-> 3]

\* the cycle cy ends in this step
Ends(cy) ==
    /\ BagCardinality(cycle') < BagCardinality(cycle)
    /\ CopiesIn(cy, cycle') < CopiesIn(cy, cycle)

\* C21: a refresh request starts a cycle of its own in the step in which it
\* arrives, whatever is in flight, and is not answered in that step; it is
\* answered in the step that ends a cycle a refresh request started, also
\* while older cycles are in flight, and never in the step that ends a cycle
\* of the startup or of the cron job.
C21_RefreshOwnCycle ==
    [][/\ CopiesIn(Started("refresh"), cycle') > CopiesIn(Started("refresh"), cycle) =>
             /\ cycle' = cycle (+) SetToBag({Started("refresh")})
             /\ response' = NoResponse
       /\ \A cy \in InFlight :
             Ends(cy) => (response'.route = "/api/refresh" <=> cy.trigger = "refresh")]_vars

\* a refresh request came while the startup cycle was in flight, and it was
\* answered while the startup cycle is in flight still
C21_Witness ==
    /\ response.route = "/api/refresh" /\ response.status = 200
    /\ \E cy \in InFlight : cy.trigger = "startup"

\* the responses of an endpoint query that failed: a network error, a status
\* that is not 2xx, a body that is not JSON
Failures == { [kind |-> k, children |-> <<>>] : k \in {"neterr", "non2xx", "badjson"} }

\* the step wrote an error line
ErrorLogged == \E i \in DOMAIN console' : console'[i].level = "error"

\* C22: whichever forum query fails (the primary listing, a secondary
\* search, the comments listing) and however it fails, the step that takes
\* the failure writes an error line, and the task is not rejected.
C22_FailureReported ==
    [][\A cy \in InFlight : \A resp \in Failures :
          (RedditNew(cy, {resp}) \/ RedditSearch(cy, {resp}) \/ RedditComments(cy, {resp}))
              => /\ ErrorLogged
                 /\ \A c \in BagToSet(cycle') : c.rpc # "rejected"]_vars

\* the search requests among the requests of a cycle
IsSearchRequest(r) == r \notin {"new", "comments", "x"}

SearchesSent(cy) == SelectSeq(cy.requests, IsSearchRequest)

\* the searches of the configured list puertovallarta, mexico, travel
\* without the primary channel puertovallarta, in the order of the list
SecondarySearches == <<"search:mexico", "search:travel">>

\* C23: a forum task sends the searches of the secondary channels in the
\* order of the list, each once: while it awaits its k-th search it has sent
\* the first k, once it is past the searches it has sent them all, also after
\* a failed query, and it never sends a search of the primary channel.
C23_SecondariesOnce ==
    \A cy \in InFlight :
        /\ cy.rpc = "new" => SearchesSent(cy) = <<>>
        /\ cy.rpc = "search" => SearchesSent(cy) = SubSeq(SecondarySearches, 1, cy.si)
        /\ cy.rpc \in {"comments", "done"} => SearchesSent(cy) = SecondarySearches
        /\ \A i \in DOMAIN cy.requests : cy.requests[i] # "search:puertovallarta"

\* a query of the cycle has failed and nothing was inserted, and the task
\* awaits the search of the last secondary channel
C23_Witness ==
    \E cy \in InFlight :
        /\ cy.failed /\ cy.inserted = 0
        /\ cy.rpc = "search" /\ cy.si = 2
        /\ posts = EmptyBag

\* the place of the comments request among the requests of a cycle, 0 when
\* it was not sent
CommentsAt(cy) ==
    IF \E i \in DOMAIN cy.requests : cy.requests[i] = "comments"
    THEN CHOOSE i \in DOMAIN cy.requests : cy.requests[i] = "comments"
    ELSE 0

\* the forum task of cy takes a step: no cycle is left where cy stood
ForumStep(cy) ==
    \A c \in BagToSet(cycle') :
        ~(c.trigger = cy.trigger /\ c.rpc = cy.rpc /\ c.si = cy.si /\ c.inserted = cy.inserted)

\* C24: a forum task sends the comments request after the answers of the
\* primary listing and of every secondary search, never while one of them
\* is awaited, and it sends it in the step that takes the answer of the last
\* search, whatever the post queries came to.
C24_CommentsLast ==
    [][\A cy \in InFlight :
          /\ cy.rpc \in {"new", "search"} => CommentsAt(cy) = 0
          /\ cy.rpc \in {"comments", "done"} =>
                /\ CommentsAt(cy) > 0
                /\ \A i \in DOMAIN cy.requests :
                      cy.requests[i] \in {"new", "search:mexico", "search:travel"}
                          => i < CommentsAt(cy)
                /\ \A r \in {"new", "search:mexico", "search:travel"} :
                      \E i \in DOMAIN cy.requests : cy.requests[i] = r
          /\ (cy.rpc = "search" /\ cy.si = 2 /\ ForumStep(cy)) =>
                \E c \in BagToSet(cycle') :
                    c.rpc = "comments" /\ c.requests = Append(cy.requests, "comments")]_vars

\* every post query of the cycle came to nothing, one of them failed, and
\* the comments listing is awaited
C24_Witness ==
    \E cy \in InFlight :
        /\ cy.failed /\ cy.inserted = 0 /\ posts = EmptyBag
        /\ cy.rpc = "comments"
        /\ CommentsAt(cy) = Len(cy.requests)

\* the stored id of the record of a source with a native id
StoredId(source, native) ==
    CASE source = "reddit" -> PostId(native)
      [] source = "reddit_comment" -> CommentId(native)
      [] source = "x" -> TweetId(native)

\* the native ids of the payloads
WideNativeIds == {"1", "2", "comment_1"}

\* C25: a row an adapter passes to the store is ignored only for a stored
\* row of its own source, and two records that differ in source or in
\* native id get different stored ids, also when a native id starts like
\* the prefix of another source.
C25_IdsInjective ==
    /\ \A r \in ignored : StoredRow(r.id, r.source)
    /\ \A s1, s2 \in {"reddit", "reddit_comment", "x"} : \A n1, n2 \in WideNativeIds :
          (s1 # s2 \/ n1 # n2) => StoredId(s1, n1) # StoredId(s2, n2)

\* the first item of a response at which the loop throws, 0 when none does
FirstThrow(attempts) ==
    IF \E i \in DOMAIN attempts : attempts[i].act = "throw"
    THEN CHOOSE i \in DOMAIN attempts :
            /\ attempts[i].act = "throw"
            /\ \A j \in 1..(i - 1) : attempts[j].act # "throw"
    ELSE 0

\* the step took a response whose loop threw at an item: the items before
\* it are stored, the items after it that were not stored and do not come
\* before it are not stored, no row is lost, an error line is written and
\* no task is rejected
KeptUpTo(attempts) ==
    LET k == FirstThrow(attempts)
        before == { attempts[i].row.id : i \in { j \in 1..(k - 1) : attempts[j].act = "insert" } }
        after == { attempts[i].row.id : i \in { j \in (k + 1)..Len(attempts) : attempts[j].act = "insert" } }
    IN k > 0 =>
        /\ before \subseteq RowIds(posts')
        /\ RowIds(posts') = RowIds(posts) \cup before
        /\ \A id \in after \ (before \cup RowIds(posts)) : id \notin RowIds(posts')
        /\ \A r \in BagToSet(posts) : CopiesIn(r, posts') = CopiesIn(r, posts)
        /\ ErrorLogged
        /\ \A c \in BagToSet(cycle') : c.rpc # "rejected" /\ c.xpc # "rejected"

\* C26: when the loop over the items of a response throws at an item, the
\* rows of the items before it stay stored, the items after it are not
\* stored, and the cycle goes on: the forum task sends its next request,
\* the other task is left as it was.
C26_NoRollback ==
    [][\A cy \in InFlight :
          /\ \A resp \in Fetched(PartialPosts, MaxItems) :
                /\ RedditNew(cy, {resp}) =>
                      /\ KeptUpTo(PostAttempts(resp.children))
                      /\ FirstThrow(PostAttempts(resp.children)) > 0 =>
                            \E c \in BagToSet(cycle') :
                                c.rpc = "search" /\ c.si = 1 /\ c.xpc = cy.xpc
                /\ RedditSearch(cy, {resp}) =>
                      /\ KeptUpTo(PostAttempts(resp.children))
                      /\ FirstThrow(PostAttempts(resp.children)) > 0 =>
                            \E c \in BagToSet(cycle') :
                                /\ c.xpc = cy.xpc
                                /\ IF cy.si < 2 THEN c.rpc = "search" /\ c.si = cy.si + 1
                                   ELSE c.rpc = "comments"
          /\ \A resp \in Fetched(PartialComments, MaxItems) :
                RedditComments(cy, {resp}) => KeptUpTo(CommentAttempts(resp.children))
          /\ \A resp \in Fetched(PartialTweets, MaxItems) :
                XSearch(cy, {resp}) =>
                    /\ KeptUpTo(TweetAttempts(resp.children))
                    /\ (FirstThrow(TweetAttempts(resp.children)) > 0 /\ ~Settled(cy.rpc)) =>
                          \E c \in BagToSet(cycle') : c.rpc = cy.rpc /\ c.xpc = "done"]_vars

\* the primary listing answered post 1 and then a child without data: the
\* post is stored and counted, the error is on the console and the first
\* search is awaited
C26_Witness ==
    /\ \E i \in DOMAIN console : console[i].level = "error" /\ console[i].msg = "TypeError"
    /\ \E cy \in InFlight : cy.rpc = "search" /\ cy.si = 1 /\ cy.inserted = 1 /\ cy.failed
    /\ StoredRow(PostId("1"), "reddit")
    /\ BagCardinality(posts) = 1

\* the response carries data of the store
StoreData(resp) == Has(resp, "posts") \/ Has(resp, "counts")

\* C27: a refresh request starts its cycle, and a list or the dashboard is
\* served, only for a request whose cookie is a token of the session set;
\* a request that is turned down gets 401 under /api/ and a redirect to
\* /login elsewhere, starts no cycle and is sent no data of the store; with
\* an empty session set no step starts a refresh cycle or sends a list.
C27_AccessGated ==
    [][/\ \A token \in Cookies :
             /\ (\/ Refresh(token, 1) \/ GetReddit(token) \/ GetX(token)
                 \/ GetAll(token) \/ Dashboard(token))
                   => token # "" /\ token \in sessions
             /\ \A path \in ApiRoutes \cup {"/"} :
                   Unauthorized(token, path) =>
                       /\ token = "" \/ token \notin sessions
                       /\ cycle' = cycle /\ posts' = posts
                       /\ ~StoreData(response')
                       /\ IF path \in {"/api/reddit", "/api/x", "/api/all", "/api/refresh"}
                          THEN response'.status = 401
                          ELSE response'.status = 302 /\ response'.location = "/login"
       /\ sessions = {} =>
             /\ CopiesIn(Started("refresh"), cycle') <= CopiesIn(Started("refresh"), cycle)
             /\ (response' # response /\ Has(response', "posts")) => FALSE]_vars

\* after a logout, with rows in the table, a request for the list of all
\* sources has been turned down with 401
C27_Witness ==
    /\ sessions = {}
    /\ posts # EmptyBag
    /\ response = [route |-> "/api/all", status |-> 401]

\* a request with this cookie is served by a route behind requireAuth
Served(token) ==
    \/ Refresh(token, 1) \/ GetReddit(token) \/ GetX(token) \/ GetAll(token) \/ Dashboard(token)

====
